---- MODULE Spec2Model ----
(***************************************************************************)
(* A model of benchopt's settings resolution, src/benchopt/config.py:      *)
(* the coercion functions parse_value / reverse_parse, the config file     *)
(* locator get_global_config_file, the legacy migrator convert_ini_to_yml  *)
(* and the two entry points get_setting / set_setting.                     *)
(*                                                                         *)
(* Representation.                                                         *)
(*  - A Python str is a sequence of one-character strings, so that         *)
(*    lower(), split(), strip() and join() are computed character by       *)
(*    character.                                                           *)
(*  - A Python value is a tagged record: B(b) a bool, S(s) a str, L(l) a   *)
(*    list of str, None, I(n) an int, M(m) a dict.                         *)
(*  - A file is Absent or [mode, content].  The content is the text of    *)
(*    the file up to what the two parsers in use make of it:               *)
(*      EmptyText        zero bytes (what `touch` creates),                *)
(*      IniText(secs)    the text configparser writes for / reads as the   *)
(*                       sections secs (in file order),                    *)
(*      YmlText(doc)     the text yaml.safe_dump writes for / safe_load    *)
(*                       reads as the document doc.                        *)
(*    Reading a text with the other format's parser is modelled by what    *)
(*    the parser does with it (yaml_safe_load, configparser_read).         *)
(***************************************************************************)
EXTENDS Naturals, Sequences, FiniteSets, TLC

VARIABLES
    files,     \* the file system: path -> Absent or [mode, content]
    env,       \* os.environ: "CONFIG" -> None or a path; option name -> None or S(text)
    last,      \* the last call made and what it produced
    justSet,   \* the set_setting call that succeeded immediately before, or None
    calls,     \* number of get_setting / set_setting calls made by the process
    nconv      \* per legacy file: how many times the process converted it

vars == <<files, env, last, justSet, calls, nconv>>

----------------------------------------------------------------------------
(* Python values *)

B(b) == [t |-> "bool", b |-> b]
S(s) == [t |-> "str", s |-> s]
L(l) == [t |-> "list", l |-> l]
I(n) == [t |-> "int", n |-> n]
M(m) == [t |-> "map", m |-> m]
None == [t |-> "none"]
EmptyDict == [k \in {} |-> None]

(* The outcome of a call: a returned value or a raised exception; warned
   records whether a diagnostic (warnings.warn) was emitted. *)
Return(v, w) == [status |-> "ok", value |-> v, warned |-> w]
Raise(e) == [status |-> e, value |-> None, warned |-> FALSE]

----------------------------------------------------------------------------
(* str methods, character by character *)

Whitespace == {" ", "\n", "\t"}

lowerChar(c) ==
    CASE c = "Y" -> "y"
      [] c = "T" -> "t"
      [] c = "N" -> "n"
      [] OTHER -> c

lower(s) == [i \in 1..Len(s) |-> lowerChar(s[i])]

RECURSIVE SplitAt(_, _, _, _)
SplitAt(s, seps, cur, acc) ==
    IF s = <<>> THEN Append(acc, cur)
    ELSE IF Head(s) \in seps
         THEN SplitAt(Tail(s), seps, <<>>, Append(acc, cur))
         ELSE SplitAt(Tail(s), seps, Append(cur, Head(s)), acc)

NonEmpty(f) == f # <<>>

(* s.split(sep): every fragment between separators, empty ones included *)
split_on(s, sep) == SplitAt(s, {sep}, <<>>, <<>>)

(* s.split(): fragments between runs of whitespace, none of them empty *)
split_ws(s) == SelectSeq(SplitAt(s, Whitespace, <<>>, <<>>), NonEmpty)

RECURSIVE lstrip(_)
lstrip(s) == IF s # <<>> /\ Head(s) \in Whitespace THEN lstrip(Tail(s)) ELSE s

RECURSIVE rstrip(_)
rstrip(s) ==
    IF s # <<>> /\ s[Len(s)] \in Whitespace THEN rstrip(SubSeq(s, 1, Len(s) - 1)) ELSE s

strip(s) == rstrip(lstrip(s))

RECURSIVE join(_, _)
join(l, sep) ==
    IF l = <<>> THEN <<>>
    ELSE IF Len(l) = 1 THEN l[1]
    ELSE l[1] \o sep \o join(Tail(l), sep)

RECURSIVE Flatten(_)
Flatten(ll) == IF ll = <<>> THEN <<>> ELSE Head(ll) \o Flatten(Tail(ll))

----------------------------------------------------------------------------
(* Type coercion *)

BOOLEAN_STATES ==
    (<<"1">> :> TRUE) @@ (<<"y", "e", "s">> :> TRUE) @@
    (<<"t", "r", "u", "e">> :> TRUE) @@ (<<"o", "n">> :> TRUE) @@
    (<<"0">> :> FALSE) @@ (<<"n", "o">> :> FALSE) @@
    (<<"f", "a", "l", "s", "e">> :> FALSE) @@ (<<"o", "f", "f">> :> FALSE)

(* [v.strip() for value in values for v in value.split(',') if v != ''] *)
comma_fragments(values) ==
    Flatten([i \in 1..Len(values) |-> SelectSeq(split_on(values[i], ","), NonEmpty)])

strip_each(l) == [i \in 1..Len(l) |-> strip(l[i])]

parse_list(s) == strip_each(comma_fragments(split_ws(s)))

(* Mutant: the KeyError of BOOLEAN_STATES[value] is not caught *)
boolean_state_uncaught(low, default_value) ==
    IF low \in DOMAIN BOOLEAN_STATES
    THEN Return(B(BOOLEAN_STATES[low]), FALSE)
    ELSE Raise("KeyError")

(* BOOLEAN_STATES[value], with the KeyError caught: warn, keep the default *)
boolean_state(low, default_value) ==
    IF low \in DOMAIN BOOLEAN_STATES
    THEN Return(B(BOOLEAN_STATES[low]), FALSE)
    ELSE Return(default_value, TRUE)

parse_bool(value, default_value) == boolean_state(lower(value.s), default_value)

parse_value(value, default_value) ==
    IF default_value.t = "bool"
    THEN IF value.t = "str" THEN parse_bool(value, default_value)
         ELSE IF value.t = "bool" THEN Return(value, FALSE)
         ELSE Raise("AssertionError")
    ELSE IF default_value.t = "list"
    THEN IF value.t = "str" THEN Return(L(parse_list(value.s)), FALSE)
         ELSE IF value.t = "list" THEN Return(value, FALSE)
         ELSE Raise("AssertionError")
    ELSE Return(value, FALSE)

reverse_parse(default_value, value) ==
    IF value.t = "bool" \/ default_value.t = "bool"
    THEN IF value.t = "bool"
         THEN IF default_value.t = "bool"
              THEN Return(S(IF value.b THEN <<"t", "r", "u", "e">>
                                       ELSE <<"f", "a", "l", "s", "e">>), FALSE)
              ELSE Raise("AssertionError")
         ELSE IF value.t # "str" THEN Raise("AttributeError")
         ELSE IF lower(value.s) \in DOMAIN BOOLEAN_STATES THEN Return(value, FALSE)
         ELSE Raise("AssertionError")
    ELSE IF value.t = "list"
    THEN IF default_value.t = "list"
         THEN Return(S(<<"\n">> \o join(value.l, <<"\n">>)), FALSE)
         ELSE Raise("AssertionError")
    ELSE Return(value, FALSE)

----------------------------------------------------------------------------
(* Registries.  A default that is one run of ordinary characters is written
   as a one-element sequence: no operation of this module looks inside it. *)

PLOT_KINDS ==
    << <<"objective_curve">>, <<"suboptimality_curve">>,
       <<"relative_suboptimality_curve">>, <<"bar_chart">> >>

DEFAULT_GLOBAL_CONFIG ==
    ("debug" :> B(FALSE)) @@ ("raise_install_error" :> B(FALSE)) @@
    ("github_token" :> None) @@ ("data_dir" :> S(<<"./data/">>)) @@
    ("conda_cmd" :> S(<<"conda">>)) @@ ("shell" :> S(<<"bash">>)) @@
    ("cache" :> None)

DEFAULT_BENCHMARK_CONFIG ==
    ("plots" :> L(PLOT_KINDS)) @@ ("plot_configs" :> M(EmptyDict))

----------------------------------------------------------------------------
(* Paths and files *)

CONFIG_FILE_NAME == [stem |-> "benchopt", suffix |-> ".yml"]

(* stat.S_IFREG | stat.S_IRUSR | stat.S_IWUSR = 0o100600 *)
GLOBAL_CONFIG_FILE_MODE == 33152

(* 0o100644: a regular file that group and others may read *)
WorldReadableMode == GLOBAL_CONFIG_FILE_MODE + 36

Dirs == {".", "~/.config"}

PathIn(dir, name) == [dir |-> dir, stem |-> name.stem, suffix |-> name.suffix]

with_suffix(path, suffix) == [path EXCEPT !.suffix = suffix]

Paths == {with_suffix(PathIn(d, CONFIG_FILE_NAME), x) : d \in Dirs, x \in {".yml", ".ini"}}

Absent == [exists |-> FALSE]
File(mode, content) == [exists |-> TRUE, mode |-> mode, content |-> content]

EmptyText == [fmt |-> "empty"]
IniText(secs) == [fmt |-> "ini", secs |-> secs]
YmlText(doc) == [fmt |-> "yml", doc |-> doc]

Section(name, items) == [sec |-> name, items |-> items]

exists(fs, path) == fs[path].exists

(* Path.touch(mode=...): creates the file, empty, with the mode; an existing
   file keeps its mode and content.  (The umask is taken not to mask owner
   bits.) *)
touch(fs, path, mode) ==
    IF exists(fs, path) THEN fs ELSE [fs EXCEPT ![path] = File(mode, EmptyText)]

(* open('w') and write: the content is replaced, the mode kept *)
write_text(fs, path, content) == [fs EXCEPT ![path] = File(fs[path].mode, content)]

----------------------------------------------------------------------------
(* The two parsers *)

(* What configparser reads back for a value it wrote: the first line and each
   continuation line stripped, joined by newlines, trailing newlines dropped *)
ini_value(s) == rstrip(join(strip_each(split_on(s, "\n")), <<"\n">>))

ini_items(items) == [k \in DOMAIN items |-> ini_value(items[k])]

(* ConfigParser.read(path): a missing file is skipped; a text that does not
   start with a section header is refused *)
configparser_read(fs, path) ==
    IF ~exists(fs, path) THEN [status |-> "ok", secs |-> <<>>]
    ELSE LET c == fs[path].content
         IN  CASE c.fmt = "empty" -> [status |-> "ok", secs |-> <<>>]
               [] c.fmt = "ini" ->
                    [status |-> "ok",
                     secs |-> [i \in 1..Len(c.secs) |->
                                  Section(c.secs[i].sec, ini_items(c.secs[i].items))]]
               [] c.fmt = "yml" -> [status |-> "MissingSectionHeaderError", secs |-> <<>>]

(* yaml.safe_load of the file's text.  An empty text is the null document.
   The text configparser writes starts with "[name]": alone (a section with
   no key, and no other section) that is the YAML flow sequence [name];
   followed by anything else it is not a YAML document. *)
yaml_safe_load(c) ==
    CASE c.fmt = "empty" -> Return(None, FALSE)
      [] c.fmt = "yml" -> Return(M(c.doc), FALSE)
      [] c.fmt = "ini" ->
           IF c.secs = <<>> THEN Return(None, FALSE)
           ELSE IF Len(c.secs) = 1 /\ DOMAIN c.secs[1].items = {}
           THEN Return(L(<< <<c.secs[1].sec>> >>), FALSE)
           ELSE Raise("YAMLError")

----------------------------------------------------------------------------
(* The environment: BENCHOPT_CONFIG (None or a path) and, per option name,
   BENCHOPT_<NAME> (None when unset, S(text) when set). *)

Environ(config, opt) == [config |-> config, opt |-> opt]

(* os.environ.get(f"BENCHOPT_{name.upper()}", value) *)
environ_get(e, name, value) ==
    IF name \in DOMAIN e.opt /\ e.opt[name] # None THEN e.opt[name] ELSE value

----------------------------------------------------------------------------
(* Secure file locator *)

(* Mutant: the legacy suffix is never probed *)
check_ini_never_legacy(fs, path) == path

check_ini(fs, path) ==
    IF ~exists(fs, path) /\ exists(fs, with_suffix(path, ".ini"))
    THEN with_suffix(path, ".ini")
    ELSE path

home_if_missing(fs, config_file) ==
    IF ~exists(fs, config_file)
    THEN check_ini(fs, PathIn("~/.config", CONFIG_FILE_NAME))
    ELSE config_file

locate_without_override(fs) ==
    home_if_missing(fs, check_ini(fs, PathIn(".", CONFIG_FILE_NAME)))

(* The permission check: a diagnostic, and the path is returned all the same *)
mode_checked(fs, config_file) ==
    Return(config_file,
           exists(fs, config_file) /\ fs[config_file].mode # GLOBAL_CONFIG_FILE_MODE)

get_global_config_file(fs, e) ==
    IF e.config # None
    THEN IF exists(fs, e.config) THEN mode_checked(fs, e.config)
         ELSE Raise("AssertionError")
    ELSE mode_checked(fs, locate_without_override(fs))

----------------------------------------------------------------------------
(* Legacy format migrator *)

section_default(sec) ==
    IF sec = "benchopt" THEN DEFAULT_GLOBAL_CONFIG ELSE DEFAULT_BENCHMARK_CONFIG

(* {key: parse_value(config_ini.get(sec, key), default[key]) for key in options} *)
section_values(items, default) ==
    [key \in DOMAIN items |-> parse_value(S(items[key]), default[key]).value]

(* One pass of the loop over config_ini.sections(), on the config built so far *)
convert_section(section, config) ==
    IF \E key \in DOMAIN section.items : key \notin DOMAIN section_default(section.sec)
    THEN [status |-> "KeyError", config |-> config]
    ELSE [status |-> "ok",
          config |-> IF section.sec = "benchopt"
                     THEN section_values(section.items, DEFAULT_GLOBAL_CONFIG) @@ config
                     ELSE (section.sec :>
                              M(section_values(section.items, DEFAULT_BENCHMARK_CONFIG)))
                          @@ config]

RECURSIVE convert_sections(_, _)
convert_sections(secs, built) ==
    IF secs = <<>> \/ built.status # "ok" THEN built
    ELSE convert_sections(Tail(secs), convert_section(Head(secs), built.config))

write_yml(fs, config_file, config) ==
    write_text(touch(fs, config_file, GLOBAL_CONFIG_FILE_MODE), config_file,
               YmlText(config))

(* The end of convert_ini_to_yml: the document is written unless building it
   raised *)
dump_converted(fs, config_file, built) ==
    IF built.status # "ok" THEN [status |-> built.status, fs |-> fs]
    ELSE [status |-> "ok",
          fs |-> write_yml(fs, with_suffix(config_file, ".yml"), built.config)]

convert_parsed(fs, config_file, config_ini) ==
    IF config_ini.status # "ok" THEN [status |-> config_ini.status, fs |-> fs]
    ELSE dump_converted(fs, config_file,
                        convert_sections(config_ini.secs,
                                         [status |-> "ok", config |-> EmptyDict]))

convert_ini_to_yml(fs, config_file) ==
    convert_parsed(fs, config_file, configparser_read(fs, config_file))

----------------------------------------------------------------------------
(* Resolution engine.  NoName stands for benchmark_name=None, None for
   config_file=None and EmptyDict for default_config=None. *)

NoName == "<None>"

registry_of(benchmark_name) ==
    IF benchmark_name = NoName THEN DEFAULT_GLOBAL_CONFIG ELSE DEFAULT_BENCHMARK_CONFIG

(* Mutant: the message always enumerates the global registry *)
valid_keys_global(benchmark_name) == DOMAIN DEFAULT_GLOBAL_CONFIG

(* The option names a message about an unknown name enumerates:
   list(default_config_) in get_setting, '\n  - '.join(default_config) in
   set_setting *)
valid_keys(benchmark_name) == DOMAIN registry_of(benchmark_name)

(* What a call produced: stage, the step it ended in; status "ok" and the
   value, or the exception raised; fs the file system it left; file the
   config file it resolved to; valid the option names its message enumerates;
   raw the value handed to parse_value (get) or written (set); diag the
   diagnostics emitted; converted whether the legacy file was converted. *)
Outcome(stage, status, value, fs, file, valid, raw, diag, converted) ==
    [stage |-> stage, status |-> status, value |-> value, fs |-> fs, file |-> file,
     valid |-> valid, raw |-> raw, diag |-> diag, converted |-> converted]

resolve_config_file(fs, e, config_file) ==
    IF config_file = None THEN get_global_config_file(fs, e)
    ELSE Return(config_file, FALSE)

(* Mutant: the benchmark's sub-namespace is never consulted *)
lookup_top_level_only(config, name, benchmark_name, default_value) ==
    IF name \in DOMAIN config THEN Return(config[name], FALSE)
    ELSE Return(default_value, FALSE)

(* config[benchmark_name].get(name, default) / config.get(name, default) *)
lookup(config, name, benchmark_name, default_value) ==
    IF benchmark_name \in DOMAIN config
    THEN IF config[benchmark_name].t # "map" THEN Raise("AttributeError")
         ELSE IF name \in DOMAIN config[benchmark_name].m
         THEN Return(config[benchmark_name].m[name], FALSE)
         ELSE Return(default_value, FALSE)
    ELSE IF name \in DOMAIN config THEN Return(config[name], FALSE)
    ELSE Return(default_value, FALSE)

effective_default(name, benchmark_name, default_config) ==
    IF name \in DOMAIN default_config THEN default_config[name]
    ELSE registry_of(benchmark_name)[name]

load_config(fs, config_file) ==
    IF exists(fs, config_file) THEN yaml_safe_load(fs[config_file].content)
    ELSE Return(M(EmptyDict), FALSE)

(* get_setting, from the value picked from the store on: the environment,
   then the coercion *)
get_parsed(fs, file, value, parsed, diag, converted) ==
    Outcome("parse", parsed.status, parsed.value, fs, file, {}, value,
            diag \cup (IF parsed.warned THEN {"coercion"} ELSE {}), converted)

get_value(fs, file, value, default_value, diag, converted) ==
    get_parsed(fs, file, value, parse_value(value, default_value), diag, converted)

get_found(fs, e, name, file, found, default_value, diag, converted) ==
    IF found.status # "ok"
    THEN Outcome("lookup", found.status, None, fs, file, {}, None, diag, converted)
    ELSE get_value(fs, file, environ_get(e, name, found.value), default_value, diag,
                   converted)

(* get_setting, from the loaded document on *)
get_loaded(fs, e, name, benchmark_name, file, loaded, default_value, diag, converted) ==
    IF loaded.status # "ok"
    THEN Outcome("load", loaded.status, None, fs, file, {}, None, diag, converted)
    ELSE IF loaded.value.t # "map"
    THEN Outcome("lookup", "AttributeError", None, fs, file, {}, None, diag, converted)
    ELSE get_found(fs, e, name, file,
                   lookup(loaded.value.m, name, benchmark_name, default_value),
                   default_value, diag, converted)

(* get_setting, after the conversion of a legacy file *)
get_converted(fs, e, name, benchmark_name, file, conv, default_value, diag) ==
    IF conv.status # "ok"
    THEN Outcome("convert", conv.status, None, fs, file, {}, None,
                 diag \cup {"deprecated"}, FALSE)
    ELSE get_loaded(conv.fs, e, name, benchmark_name, file,
                    load_config(conv.fs, with_suffix(file, ".yml")), default_value,
                    diag \cup {"deprecated"}, TRUE)

(* get_setting, once the config file is known and the name is valid *)
get_from_file(fs, e, name, benchmark_name, file, default_value, diag) ==
    IF file.suffix = ".ini"
    THEN get_converted(fs, e, name, benchmark_name, file,
                       convert_ini_to_yml(fs, file), default_value, diag)
    ELSE get_loaded(fs, e, name, benchmark_name, file, load_config(fs, file),
                    default_value, diag, FALSE)

get_located(fs, e, name, benchmark_name, default_config, located) ==
    IF located.status # "ok"
    THEN Outcome("locate", located.status, None, fs, None, {}, None, {}, FALSE)
    ELSE IF name \notin DOMAIN registry_of(benchmark_name)
    THEN Outcome("name", "AssertionError", None, fs, located.value,
                 valid_keys(benchmark_name), None,
                 IF located.warned THEN {"mode"} ELSE {}, FALSE)
    ELSE get_from_file(fs, e, name, benchmark_name, located.value,
                       effective_default(name, benchmark_name, default_config),
                       IF located.warned THEN {"mode"} ELSE {})

get_setting(fs, e, name, config_file, benchmark_name, default_config) ==
    get_located(fs, e, name, benchmark_name, default_config,
                resolve_config_file(fs, e, config_file))

(* config[benchmark_name][name] = value, after
   `if benchmark_name not in config: config[benchmark_name] = {}` *)
HasSection(secs, name) == \E i \in 1..Len(secs) : secs[i].sec = name

with_section(secs, section) ==
    IF HasSection(secs, section) THEN secs
    ELSE Append(secs, Section(section, EmptyDict))

assign_option(secs, section, name, value) ==
    [i \in 1..Len(secs) |->
        IF secs[i].sec = section
        THEN Section(section, (name :> value) @@ secs[i].items)
        ELSE secs[i]]

set_option(secs, section, name, value) ==
    assign_option(with_section(secs, section), section, name, value)

write_ini(fs, config_file, secs) ==
    write_text(touch(fs, config_file, GLOBAL_CONFIG_FILE_MODE), config_file,
               IniText(secs))

section_name(benchmark_name) ==
    IF benchmark_name = NoName THEN "benchopt" ELSE benchmark_name

(* set_setting, from the serialized value on *)
set_serialized(fs, name, benchmark_name, file, secs, text, diag) ==
    IF text.status # "ok"
    THEN Outcome("serialize", text.status, None, fs, file, {}, None, diag, FALSE)
    ELSE IF text.value.t # "str"
    THEN Outcome("serialize", "TypeError", None, fs, file, {}, None, diag, FALSE)
    ELSE Outcome("write", "ok", None,
                 write_ini(fs, file,
                           set_option(secs, section_name(benchmark_name), name,
                                      text.value.s)),
                 file, {}, text.value, diag, FALSE)

(* Mutant: the sections read from the file are dropped, only the new value is
   written *)
set_read_delta_only(fs, name, value, benchmark_name, file, config, diag) ==
    IF config.status # "ok"
    THEN Outcome("read", config.status, None, fs, file, {}, None, diag, FALSE)
    ELSE set_serialized(fs, name, benchmark_name, file, <<>>,
                        reverse_parse(registry_of(benchmark_name)[name], value), diag)

(* set_setting, from the config read from the file on *)
set_read(fs, name, value, benchmark_name, file, config, diag) ==
    IF config.status # "ok"
    THEN Outcome("read", config.status, None, fs, file, {}, None, diag, FALSE)
    ELSE set_serialized(fs, name, benchmark_name, file, config.secs,
                        reverse_parse(registry_of(benchmark_name)[name], value), diag)

set_located(fs, name, value, benchmark_name, located) ==
    IF located.status # "ok"
    THEN Outcome("locate", located.status, None, fs, None, {}, None, {}, FALSE)
    ELSE IF name \notin DOMAIN registry_of(benchmark_name)
    THEN Outcome("name", "SystemExit", None, fs, located.value,
                 valid_keys(benchmark_name), None,
                 IF located.warned THEN {"mode"} ELSE {}, FALSE)
    ELSE set_read(fs, name, value, benchmark_name, located.value,
                  configparser_read(fs, located.value),
                  IF located.warned THEN {"mode"} ELSE {})

set_setting(fs, e, name, value, config_file, benchmark_name) ==
    set_located(fs, name, value, benchmark_name,
                resolve_config_file(fs, e, config_file))

----------------------------------------------------------------------------
(* Bounds and input pools *)

MaxCalls == 2       \* calls of get_setting / set_setting in one run
MaxStrLen == 3      \* length of the strings fed to the coercion round trip
MaxListLen == 2     \* length of the lists fed to the coercion round trip

LocalYml == PathIn(".", CONFIG_FILE_NAME)
LocalIni == with_suffix(LocalYml, ".ini")
HomeYml == PathIn("~/.config", CONFIG_FILE_NAME)
HomeIni == with_suffix(HomeYml, ".ini")

TxtTrue == <<"t", "r", "u", "e">>
TxtYes == <<"Y", "e", "s">>
TxtOne == <<"1">>
TxtMaybe == <<"m", "a", "y", "b", "e">>
TxtList == <<"a", ",", " ", "b", "\n", "c">>
TxtDir == <<" ", "x">>

Modes == {GLOBAL_CONFIG_FILE_MODE, WorldReadableMode}

AllAbsent == [p \in Paths |-> Absent]
One(p, f) == [AllAbsent EXCEPT ![p] = f]

(* Legacy files: the one of the migration example (a benchmark key `opt` that
   no registry declares), and one whose keys are all declared *)
LegacyExample ==
    IniText(<< Section("benchopt", "debug" :> <<"y", "e", "s">>),
               Section("bench1", "opt" :> TxtTrue) >>)
LegacyDeclared ==
    IniText(<< Section("benchopt", ("debug" :> <<"y", "e", "s">>) @@ ("data_dir" :> <<"x">>)),
               Section("bench1", "plots" :> TxtList) >>)

(* A store as set_setting leaves it, and one as the migrator leaves it *)
WrittenBySet == IniText(<< Section("benchopt", "data_dir" :> <<"x">>) >>)
WrittenByMigration ==
    YmlText(("debug" :> B(TRUE)) @@ ("bench1" :> M("plots" :> L(<< <<"a">> >>))))

(* Hand-written current-format stores *)
YmlDocs ==
    { EmptyDict,
      ("debug" :> B(TRUE)) @@ ("data_dir" :> S(<<"x">>))
          @@ ("bench1" :> M("plots" :> L(<< <<"a">> >>))),
      "plots" :> L(<< <<"b">> >>),
      ("plots" :> L(<< <<"b">> >>)) @@ ("bench1" :> M(EmptyDict)),
      "bench1" :> None,
      "debug" :> I(1),
      "debug" :> S(TxtMaybe),
      "debug" :> S(TxtYes) }

NoEnv == Environ(None, [n \in {"debug", "plots"} |-> None])

InitCommon ==
    /\ last = [op |-> "none"]
    /\ justSet = None
    /\ calls = 0
    /\ nconv = [p \in Paths |-> 0]

----------------------------------------------------------------------------
(* Actions *)

Called(op, name, arg, config_file, benchmark_name, default_config, out) ==
    [op |-> op, name |-> name, arg |-> arg, config_file |-> config_file,
     benchmark_name |-> benchmark_name, default_config |-> default_config,
     after |-> justSet, stage |-> out.stage, status |-> out.status,
     value |-> out.value, file |-> out.file, valid |-> out.valid, raw |-> out.raw,
     diag |-> out.diag]

GetDone(name, config_file, benchmark_name, default_config, out) ==
    /\ files' = out.fs
    /\ last' = Called("get", name, None, config_file, benchmark_name, default_config,
                      out)
    /\ nconv' = IF out.converted THEN [nconv EXCEPT ![out.file] = @ + 1] ELSE nconv
    /\ justSet' = None
    /\ calls' = calls + 1
    /\ UNCHANGED env

Get(name, config_file, benchmark_name, default_config) ==
    /\ calls < MaxCalls
    /\ GetDone(name, config_file, benchmark_name, default_config,
               get_setting(files, env, name, config_file, benchmark_name,
                           default_config))

SetDone(name, value, config_file, benchmark_name, out) ==
    /\ files' = out.fs
    /\ last' = Called("set", name, value, config_file, benchmark_name, EmptyDict, out)
    /\ justSet' = IF out.status = "ok"
                  THEN [name |-> name, value |-> value, config_file |-> config_file,
                        benchmark_name |-> benchmark_name, file |-> out.file]
                  ELSE None
    /\ calls' = calls + 1
    /\ UNCHANGED <<env, nconv>>

Set(name, value, config_file, benchmark_name) ==
    /\ calls < MaxCalls
    /\ SetDone(name, value, config_file, benchmark_name,
               set_setting(files, env, name, value, config_file, benchmark_name))

Located(out) ==
    last' = [op |-> "locate", status |-> out.status, value |-> out.value,
             warned |-> out.warned]

Locate ==
    /\ last.op = "none"
    /\ Located(get_global_config_file(files, env))
    /\ UNCHANGED <<files, env, justSet, calls, nconv>>

(* parse_value(reverse_parse(d, v), d); what reverse_parse raises comes out *)
parse_serialized(text, default_value) ==
    IF text.status = "ok" THEN parse_value(text.value, default_value) ELSE text

RoundTrip ==
    /\ last.op = "input"
    /\ last' = [op |-> "roundtrip", default |-> last.default, value |-> last.value,
                 result |-> parse_serialized(reverse_parse(last.default, last.value),
                                             last.default)]
    /\ UNCHANGED <<files, env, justSet, calls, nconv>>

----------------------------------------------------------------------------
(* Spec: a process that gets and sets settings *)

StoreInits ==
    {AllAbsent}
    \cup {One(p, File(m, c)) : p \in {LocalIni, HomeIni}, m \in Modes,
                               c \in {LegacyExample, LegacyDeclared}}
    \cup {One(p, File(m, c)) : p \in {LocalYml, HomeYml}, m \in Modes,
                               c \in {EmptyText, WrittenBySet, WrittenByMigration}}
    \cup {[One(LocalIni, File(GLOBAL_CONFIG_FILE_MODE, LegacyDeclared))
              EXCEPT ![LocalYml] = File(WorldReadableMode, WrittenByMigration)]}

StoreEnvs ==
    {Environ(c, ("debug" :> d) @@ ("plots" :> None)) :
        c \in {None, LocalIni, HomeYml}, d \in {None, S(TxtOne)}}

ArgFiles == {None, LocalIni, LocalYml}

GetCalls ==
    {<<"debug", NoName>>, <<"data_dir", NoName>>, <<"plots", "bench1">>,
     <<"not_a_real_option", NoName>>}

SetCalls ==
    {<<"debug", B(TRUE), NoName>>, <<"data_dir", S(TxtDir), NoName>>,
     <<"plots", L(<< <<"a">>, <<"b">> >>), "bench1">>,
     <<"not_a_real_option", S(<<"x">>), NoName>>,
     <<"debug", S(TxtMaybe), NoName>>}

Init ==
    /\ files \in StoreInits
    /\ env \in StoreEnvs
    /\ InitCommon

GetStep == \E c \in GetCalls, f \in ArgFiles : Get(c[1], f, c[2], EmptyDict)

SetStep == \E c \in SetCalls, f \in ArgFiles : Set(c[1], c[2], f, c[3])

Next == GetStep \/ SetStep

Spec == Init /\ [][Next]_vars

----------------------------------------------------------------------------
(* SpecResolve: single resolutions over many stores and environments *)

ResolveInits ==
    {AllAbsent}
    \cup {One(LocalYml, File(m, YmlText(d))) : m \in Modes, d \in YmlDocs}
    \cup {One(LocalYml, File(m, c)) : m \in Modes, c \in {EmptyText, WrittenBySet}}
    \cup {One(LocalIni, File(GLOBAL_CONFIG_FILE_MODE, LegacyDeclared))}

ResolveEnvs ==
    {Environ(c, ("debug" :> d) @@ ("plots" :> l)) :
        c \in {None, LocalYml},
        d \in {None, S(TxtYes), S(TxtMaybe)},
        l \in {None, S(TxtList)}}

ResolveNames == {"debug", "data_dir", "plots", "not_a_real_option"}

ResolveDefaults ==
    {EmptyDict, ("debug" :> B(TRUE)) @@ ("plots" :> L(<< <<"c">> >>))}

InitResolve ==
    /\ files \in ResolveInits
    /\ env \in ResolveEnvs
    /\ InitCommon

NextResolve ==
    \E n \in ResolveNames, f \in {None, LocalYml}, b \in {NoName, "bench1"},
       d \in ResolveDefaults : Get(n, f, b, d)

SpecResolve == InitResolve /\ [][NextResolve]_vars

----------------------------------------------------------------------------
(* SpecLocate: the locator over every combination of existing files *)

InitLocate ==
    /\ files \in [Paths -> {Absent} \cup {File(m, EmptyText) : m \in Modes}]
    /\ env \in {Environ(c, NoEnv.opt) : c \in {None} \cup Paths}
    /\ InitCommon

SpecLocate == InitLocate /\ [][Locate]_vars

----------------------------------------------------------------------------
(* SpecCoerce: serialize then parse, over every value of each shape *)

Alphabet == {"a", " ", ",", "\n"}

RECURSIVE SeqsUpTo(_, _)
SeqsUpTo(S_, n) ==
    IF n = 0 THEN {<<>>}
    ELSE LET shorter == SeqsUpTo(S_, n - 1)
         IN  shorter \cup {Append(q, x) : q \in shorter, x \in S_}

Strings == SeqsUpTo(Alphabet, MaxStrLen)

CoerceInputs ==
    {<<B(d), B(v)>> : d \in BOOLEAN, v \in BOOLEAN}
    \cup {<<d, S(v)>> : d \in {S(<<"conda">>), None}, v \in Strings}
    \cup {<<d, L(v)>> : d \in {L(<<>>), L(PLOT_KINDS)}, v \in SeqsUpTo(Strings, MaxListLen)}

InitCoerce ==
    /\ last \in {[op |-> "input", default |-> i[1], value |-> i[2]] : i \in CoerceInputs}
    /\ files = AllAbsent
    /\ env = NoEnv
    /\ justSet = None
    /\ calls = 0
    /\ nconv = [p \in Paths |-> 0]

SpecCoerce == InitCoerce /\ [][RoundTrip]_vars

----------------------------------------------------------------------------
(* Vocabulary of the properties *)

GlobalNames ==
    {"debug", "raise_install_error", "github_token", "data_dir", "conda_cmd",
     "shell", "cache"}
BenchmarkNames == {"plots", "plot_configs"}

NamesOf(benchmark_name) ==
    IF benchmark_name = NoName THEN GlobalNames ELSE BenchmarkNames

TrueTokens == {<<"1">>, <<"y", "e", "s">>, <<"t", "r", "u", "e">>, <<"o", "n">>}
FalseTokens == {<<"0">>, <<"n", "o">>, <<"f", "a", "l", "s", "e">>, <<"o", "f", "f">>}

(* The shape of an option: that of its registry default; an option whose
   default is None holds a string *)
ShapeOf(default_value) == IF default_value.t = "none" THEN "str" ELSE default_value.t

IsGet == last.op = "get"
Registered == last.name \in NamesOf(last.benchmark_name)
EnvUnset == last.name \notin DOMAIN env.opt \/ env.opt[last.name] = None
EffectiveDefault ==
    IF last.name \in DOMAIN last.default_config THEN last.default_config[last.name]
    ELSE registry_of(last.benchmark_name)[last.name]

----------------------------------------------------------------------------
(* C7 (SpecCoerce). Round trip: for every option shape, with a default d of
   that shape and every valid value v of it, parse_value(reverse_parse(d, v), d)
   equals v; for lists the order and the elements are kept exactly.
   A list is taken as valid when each element is an item the list format can
   hold by the format's own description (separators are the line break and
   the comma, fragments are trimmed, empty ones dropped): not empty, no comma
   or line break inside, no white space at either end.  The statement fails
   on the code already for these lists, so it fails for all lists as well. *)
ValidElement(x) ==
    /\ x # <<>>
    /\ strip(x) = x
    /\ \A i \in 1..Len(x) : x[i] \notin {",", "\n"}

ValidValue(v) == v.t = "list" => \A i \in 1..Len(v.l) : ValidElement(v.l[i])

C7_RoundTrip ==
    (last.op = "roundtrip" /\ ValidValue(last.value))
        => (last.result.status = "ok" /\ last.result.value = last.value)

----------------------------------------------------------------------------
(* C8 (SpecLocate). Without BENCHOPT_CONFIG the locator returns the first
   existing file in the order ./benchopt.yml, ./benchopt.ini,
   ~/.config/benchopt.yml, ~/.config/benchopt.ini. *)
RECURSIVE FirstExisting(_, _, _)
FirstExisting(fs, order, fallback) ==
    IF order = <<>> THEN fallback
    ELSE IF fs[Head(order)].exists THEN Head(order)
    ELSE FirstExisting(fs, Tail(order), fallback)

ProbeOrder == <<LocalYml, LocalIni, HomeYml, HomeIni>>

LocatedWithoutOverride == last.op = "locate" /\ env.config = None

(* C8 as stated: when none of the four exists, the project-local canonical
   path is returned. *)
C8_FallbackIsLocal ==
    LocatedWithoutOverride
        => (last.status = "ok" /\ last.value = FirstExisting(files, ProbeOrder, LocalYml))

(* C8 amended: when none of the four exists, the user-home canonical path is
   returned. *)
C8_FallbackIsHome ==
    LocatedWithoutOverride
        => (last.status = "ok" /\ last.value = FirstExisting(files, ProbeOrder, HomeYml))

C8_Witness_NoneExists ==
    /\ LocatedWithoutOverride
    /\ \A p \in Paths : ~files[p].exists
    /\ last.value = HomeYml

----------------------------------------------------------------------------
(* C2 (SpecResolve). Environment precedence: for a registered option, whatever
   the store holds and whatever the default, when BENCHOPT_<NAME> is set
   get_setting returns the environment's text coerced to the option's shape.
   (A BENCHOPT_CONFIG naming a missing file, which is fatal by design, is left
   out: the claim is about the store's content.) *)
C2_EnvironmentWins ==
    (IsGet /\ Registered /\ ~EnvUnset /\ last.stage # "locate")
        => /\ last.status = "ok"
           /\ last.value = parse_value(env.opt[last.name], EffectiveDefault).value

----------------------------------------------------------------------------
(* C3 (SpecResolve). Store lookup is by (namespace, key).  The properties are
   about a call with no environment variable for the option, on a
   current-format file that is missing or holds a YAML mapping in which the
   benchmark's entry, when there is one, is itself a mapping (an empty
   `bench1:` is null, and the lookup in it raises). *)
StoreDoc ==
    IF files[last.file].exists THEN files[last.file].content.doc ELSE EmptyDict

ReadsMapping ==
    /\ IsGet /\ Registered /\ EnvUnset
    /\ last.stage # "locate"
    /\ last.file.suffix = ".yml"
    /\ files[last.file].exists => files[last.file].content.fmt = "yml"

ResolvedFromStore ==
    /\ ReadsMapping
    /\ last.benchmark_name \in DOMAIN StoreDoc => StoreDoc[last.benchmark_name].t = "map"

NullNamespace ==
    /\ ReadsMapping
    /\ last.benchmark_name \in DOMAIN StoreDoc
    /\ StoreDoc[last.benchmark_name].t # "map"

InOwnNamespace ==
    IF last.benchmark_name = NoName THEN last.name \in DOMAIN StoreDoc
    ELSE /\ last.benchmark_name \in DOMAIN StoreDoc
         /\ last.name \in DOMAIN StoreDoc[last.benchmark_name].m

OwnValue ==
    IF last.benchmark_name = NoName THEN StoreDoc[last.name]
    ELSE StoreDoc[last.benchmark_name].m[last.name]

(* The benchmark has no sub-namespace in the document, and the option has a
   top-level entry *)
OnlyAtTopLevel ==
    /\ last.benchmark_name # NoName
    /\ last.benchmark_name \notin DOMAIN StoreDoc
    /\ last.name \in DOMAIN StoreDoc

(* C3 as stated: the value resolved is the store's exactly when the document
   has the entry under the scope's own namespace, and the effective default
   otherwise. *)
C3_OwnNamespaceOnly ==
    ResolvedFromStore
        => /\ last.stage = "parse"
           /\ last.raw = IF InOwnNamespace THEN OwnValue ELSE EffectiveDefault

(* C3 amended: for a benchmark scope whose sub-namespace is absent from the
   document, the option's top-level entry is used when there is one; and a
   benchmark entry that is no mapping makes the lookup raise. *)
C3_TopLevelFallback ==
    /\ ResolvedFromStore
          => /\ last.stage = "parse"
             /\ last.raw = IF InOwnNamespace THEN OwnValue
                           ELSE IF OnlyAtTopLevel THEN StoreDoc[last.name]
                           ELSE EffectiveDefault
    /\ NullNamespace
          => (last.stage = "lookup" /\ last.status = "AttributeError")

C3_Witness_TopLevelUsed ==
    /\ ResolvedFromStore
    /\ OnlyAtTopLevel
    /\ last.raw = StoreDoc[last.name]
    /\ last.raw # EffectiveDefault

----------------------------------------------------------------------------
(* C5 (SpecResolve). Unknown option on get. *)
UnknownName == IsGet /\ ~Registered

OverrideMissing ==
    /\ last.config_file = None
    /\ env.config # None
    /\ ~files[env.config].exists

(* C5 as stated: get_setting fails, returns no value, and its message lists
   the valid option names of the scope. *)
C5_UnknownListsNames ==
    UnknownName
        => /\ last.status = "AssertionError"
           /\ last.value = None
           /\ last.valid = NamesOf(last.benchmark_name)

(* C5 amended: ... unless no config_file is given and BENCHOPT_CONFIG names a
   missing file: the call then fails in the locator, before the name is
   looked at, and its message lists no option name. *)
C5_UnknownListsNamesAfterLocate ==
    UnknownName
        => /\ last.status = "AssertionError"
           /\ last.value = None
           /\ last.valid = IF OverrideMissing THEN {} ELSE NamesOf(last.benchmark_name)

C5_Witness_BenchmarkScope ==
    /\ UnknownName
    /\ last.benchmark_name # NoName
    /\ last.status = "AssertionError"
    /\ last.valid = BenchmarkNames

----------------------------------------------------------------------------
(* C6 (SpecResolve). Coercion of a boolean option, for a call that got as far
   as a raw value (from the environment or from the store). *)
BooleanCoerced ==
    /\ IsGet /\ Registered
    /\ last.stage = "parse"
    /\ EffectiveDefault.t = "bool"

IsToken(raw) == raw.t = "str" /\ lower(raw.s) \in TrueTokens \cup FalseTokens

(* C6 as stated: whenever the raw value cannot be coerced to a boolean the
   call does not raise and returns the effective default; the result is
   always a boolean. *)
C6_NeverAborts ==
    BooleanCoerced
        => /\ last.status = "ok"
           /\ last.value.t = "bool"
           /\ (last.raw.t # "bool" /\ ~IsToken(last.raw)) => last.value = EffectiveDefault

(* C6 amended: a raw text that is no boolean token gives a diagnostic and the
   effective default; a token gives its truth value; a boolean passes
   through; a raw value that is neither text nor boolean fails the
   assertion of parse_value.  A call that returns returns a boolean. *)
C6_TextFallsBack ==
    BooleanCoerced
        => /\ last.raw.t = "str"
              => /\ last.status = "ok"
                 /\ last.value = IF lower(last.raw.s) \in TrueTokens THEN B(TRUE)
                                 ELSE IF lower(last.raw.s) \in FalseTokens THEN B(FALSE)
                                 ELSE EffectiveDefault
                 /\ ~IsToken(last.raw) => "coercion" \in last.diag
           /\ last.raw.t = "bool" => (last.status = "ok" /\ last.value = last.raw)
           /\ last.raw.t \notin {"str", "bool"} => last.status = "AssertionError"
           /\ last.status = "ok" => last.value.t = "bool"

C6_Witness_BadText ==
    /\ BooleanCoerced
    /\ last.raw.t = "str"
    /\ ~IsToken(last.raw)
    /\ last.status = "ok"
    /\ last.value = EffectiveDefault
    /\ "coercion" \in last.diag

----------------------------------------------------------------------------
(* C1 (Spec). Set then get: for a global option x and a value v of x's shape,
   with no BENCHOPT_<X> set, set_setting(x, v) on a store file and then
   immediately get_setting(x) on the same file returns v. *)
GetRightAfterSet ==
    /\ IsGet
    /\ last.after # None
    /\ last.after.name = last.name
    /\ last.after.benchmark_name = NoName /\ last.benchmark_name = NoName
    /\ last.after.config_file = last.config_file
    /\ last.after.file = last.file
    /\ last.after.value.t = ShapeOf(DEFAULT_GLOBAL_CONFIG[last.name])
    /\ EnvUnset

C1_SetThenGet ==
    GetRightAfterSet => (last.status = "ok" /\ last.value = last.after.value)

----------------------------------------------------------------------------
(* C4 (Spec). Migration preserves values: after get_setting on a legacy file,
   every key of every section is in the .yml sibling under its namespace with
   its coerced value (and get_setting of a declared key gives that value),
   the sibling has the owner-only mode, and the legacy file is still there. *)
ReadLegacy ==
    /\ IsGet /\ Registered
    /\ last.stage # "locate"
    /\ last.file.suffix = ".ini"
    /\ files[last.file].exists
    /\ files[last.file].content.fmt = "ini"

LegacyScope(sec) == IF sec = "benchopt" THEN NoName ELSE sec

Carried(doc, sec, key) ==
    IF sec = "benchopt" THEN key \in DOMAIN doc
    ELSE sec \in DOMAIN doc /\ doc[sec].t = "map" /\ key \in DOMAIN doc[sec].m

GetsCoerced(yml, sec, key, text) ==
    key \in NamesOf(LegacyScope(sec))
        => get_setting(files, NoEnv, key, yml, LegacyScope(sec), EmptyDict).value
             = parse_value(S(ini_value(text)), section_default(sec)[key]).value

MigratedTo(yml, secs) ==
    /\ files[yml].exists
    /\ files[yml].mode = GLOBAL_CONFIG_FILE_MODE
    /\ files[yml].content.fmt = "yml"
    /\ \A i \in 1..Len(secs) : \A key \in DOMAIN secs[i].items :
          /\ Carried(files[yml].content.doc, secs[i].sec, key)
          /\ GetsCoerced(yml, secs[i].sec, key, secs[i].items[key])

C4_MigrationPreservesValues ==
    ReadLegacy
        => MigratedTo(with_suffix(last.file, ".yml"), files[last.file].content.secs)

----------------------------------------------------------------------------
(* C9 (Spec). Migration happens at most once: over the get_setting calls of
   one process, whichever way the path was given, a legacy file is converted
   at most once. *)
C9_MigratedAtMostOnce == \A p \in Paths : files[p].exists => nconv[p] <= 1

----------------------------------------------------------------------------
(* C10 (Spec). set_setting changes one entry of one store: every other entry
   of the file it resolved to is kept with its value, no other file changes,
   and a call that is rejected (an unknown name, or any other failure) leaves
   every file as it was. *)
SectionEntries(section) ==
    {<<section.sec, key, S(ini_value(section.items[key]))>> : key \in DOMAIN section.items}

IniEntries(secs) == UNION {SectionEntries(secs[i]) : i \in 1..Len(secs)}

StoreEntries(f) ==
    IF ~f.exists \/ f.content.fmt # "ini" THEN {} ELSE IniEntries(f.content.secs)

Others(entries, section, name) ==
    {x \in entries : x[1] # section \/ x[2] # name}

SetStepTaken == last'.op = "set" /\ calls' = calls + 1

WroteOneEntry(before, after, section, name, text) ==
    /\ Others(after, section, name) = Others(before, section, name)
    /\ <<section, name, S(ini_value(text.s))>> \in after

====
